---------------------------- MODULE Spec2Model ----------------------------
(***************************************************************************)
(* Model of endpoint_monitor.py: the EndpointMonitor object (registry,     *)
(* probe executor, fan-out over a thread pool, result store, live loop).   *)
(*                                                                         *)
(* Abstractions: printing has no state and is left out (so is the `output` *)
(* flag, which only selects printing); the wall clock is one instant Now;  *)
(* a latency is a whole number of milliseconds.                            *)
(*                                                                         *)
(* Specifications: Spec, one process calling the methods in sequence, with *)
(* the pool's threads and Ctrl+C; FairSpec, Spec with the pool scheduled;  *)
(* SpecProbe, _check_endpoint alone; SpecShared, one object whose          *)
(* add_endpoint a second thread calls during a fetch; SpecSink,            *)
(* _save_result called by several processes on one store; SpecPool, a      *)
(* fetch over a registry of more endpoints than the pool has threads.      *)
(***************************************************************************)
EXTENDS Integers, Sequences, FiniteSets, TLC

(* ------------------------------ bounds -------------------------------- *)

\* Longest subset filter (--endpoints NAME...) that is tried.
MaxFilterLen == 2
\* A fan-out starts only while the result store has room for its rows, or is empty.
MaxRows == 2
\* Most cycles one run of live may start.
MaxCycles == 2
\* Threads of the pool (ThreadPoolExecutor() sizes it from the host's CPUs).
max_workers == 2
\* Most calls of _save_result that processes make on one store at a time.
MaxAppenders == 3

(* ------------------------------ inputs -------------------------------- *)

DEFAULT_TIMEOUT == 10

\* The names add_endpoint is called with and a filter may hold: a filter
\* name is unknown as long as it has not been added.
Names == {"a", "b"}
\* A name that only a second thread adds, while the first is in fetch.
LateNames == {"c"}
\* The (url, timeout) pairs add_endpoint is called with.
Targets == { [url |-> "Ua", timeout |-> 5], [url |-> "Ub", timeout |-> DEFAULT_TIMEOUT] }
\* time.sleep(interval) is one step whatever the interval: live is run with
\* interval 0, where the next cycle is due at once.
Intervals == {0}

\* Python's None, and a present value: an optional is a sequence of length <= 1.
None == <<>>
Some(v) == <<v>>

\* What requests.get does: it returns a response (the exchange completed)
\* or raises a RequestException (it did not complete).
Response(status, ms) == [kind |-> "response", status_code |-> status, elapsed |-> ms]
Raised(msg) == [kind |-> "exception", message |-> msg]

\* The exchanges a probe of a fan-out may meet: success, HTTP error,
\* transport failure, timeout.
Responses ==
    { Response(200, 50), Response(404, 50),
      Raised("Connection refused"), Raised("Read timed out") }

\* The exchanges a single probe is tried on: every status code of HTTP's
\* three digits, and the failures.
AllStatusCodes == 100..599
ProbeResponses ==
    { Response(s, 50) : s \in AllStatusCodes }
    \cup { Raised("Connection refused"), Raised("Read timed out") }

\* endpoint_names: None, or a list of names (argparse nargs="+", or a caller's list).
RECURSIVE SeqsUpTo(_, _)
SeqsUpTo(S, n) ==
    IF n = 0 THEN { <<>> }
    ELSE LET shorter == SeqsUpTo(S, n - 1)
         IN  shorter \cup { Append(s, x) : s \in shorter, x \in S }
Filters == { None } \cup { Some(s) : s \in SeqsUpTo(Names, MaxFilterLen) }

Now == "t0"

(* ------------------------------- state -------------------------------- *)

VARIABLES
    config,              \* self.config["endpoints"]: a dict, in insertion order
    config_file,         \* the content of CONFIG_FILE
    config_saves,        \* how many times CONFIG_FILE was written
    first_add,           \* history: the arguments of the first add_endpoint of each name
    data_store,          \* DATA_STORE_FILE: whether it exists, and its lines
    mode,                \* the method the caller is in: "idle", "fetch", "live"
    pc,                  \* where the calling thread is
    endpoint_names,      \* the endpoint_names argument of the running fetch / live
    interval,            \* the interval argument of the running live
    to_check,            \* fetch's to_check: the filtered dict, or None when it is self.config itself
    future_to_endpoint,  \* the futures of the cycle, in submission order, each with
                         \* its state, the request made for it and how that ended
    results,             \* fetch's results list
    di_used,             \* the size the dict had when the iteration over
                         \* to_check.items() began (the iterator's di_used), or None
    endpoints_at_start,  \* history: the registry when the cycle began
    rows_before,         \* history: the rows of the store when the cycle began
    probe_calls,         \* history: the names _check_endpoint was called with in the cycle
    driver,              \* live's loop: "Idle", "Running", "Sleeping", "Stopped"
    cancelled,           \* a KeyboardInterrupt was delivered to the running live
    cycles,              \* the fan-outs the running live has started
    returned,            \* what the last finished call returned (or printed)
    checked,             \* the last direct call of _check_endpoint
    appenders            \* the calls of _save_result made by other processes
                         \* on DATA_STORE_FILE, each with its position

vars == << config, config_file, config_saves, first_add, data_store, mode, pc,
           endpoint_names, interval, to_check, future_to_endpoint, results,
           di_used, endpoints_at_start, rows_before, probe_calls, driver,
           cancelled, cycles, returned, checked, appenders >>

registryVars == << config, config_file, config_saves, first_add >>
argVars == << endpoint_names, interval >>
iterVars == << di_used, endpoints_at_start >>
frameVars == << to_check, future_to_endpoint, results, iterVars, rows_before, probe_calls >>
driverVars == << driver, cancelled, cycles >>

(* ------------------------------ registry ------------------------------ *)

\* A dict is a sequence of [name, data] items, in insertion order.
Keys(d) == { d[i].name : i \in 1..Len(d) }
Get(d, name) == (CHOOSE i \in 1..Len(d) : d[i].name = name)
Value(d, name) == d[Get(d, name)].data

\* d[name] = data
SetItem(d, name, data) ==
    IF name \in Keys(d)
    THEN [d EXCEPT ![Get(d, name)].data = data]
    ELSE Append(d, [name |-> name, data |-> data])

\* _load_config when CONFIG_FILE does not exist: it writes and returns the default.
_load_config == <<>>

\* A call by the user begins: the locals of the call before it are gone.
NoFrame ==
    /\ to_check' = None
    /\ future_to_endpoint' = <<>>
    /\ results' = <<>>
    /\ di_used' = None
    /\ endpoints_at_start' = <<>>
    /\ rows_before' = <<>>
    /\ probe_calls' = <<>>

NewCall ==
    /\ endpoint_names' = None
    /\ interval' = 0
    /\ NoFrame
    /\ driver' = "Idle"
    /\ cancelled' = FALSE
    /\ cycles' = 0

\* add_endpoint, were it to lack the check for an existing name.
add_endpoint_overwrite(name, url, timeout) ==
    /\ pc = "idle"
    /\ first_add' = IF first_add[name] = None
                    THEN [first_add EXCEPT ![name] = Some([url |-> url, timeout |-> timeout])]
                    ELSE first_add
    /\ config' = SetItem(config, name, [url |-> url, timeout |-> timeout])
    /\ config_file' = config'
    /\ config_saves' = config_saves + 1
    /\ returned' = [op |-> "add_endpoint", name |-> name, url |-> url,
                    timeout |-> timeout, value |-> TRUE]
    /\ NewCall
    /\ UNCHANGED << data_store, mode, pc, checked, appenders >>

\* add_endpoint(name, url, timeout); `returned` keeps the call with its value.
add_endpoint(name, url, timeout) ==
    /\ pc = "idle"
    /\ first_add' = IF first_add[name] = None
                    THEN [first_add EXCEPT ![name] = Some([url |-> url, timeout |-> timeout])]
                    ELSE first_add
    /\ IF name \in Keys(config)
       THEN /\ returned' = [op |-> "add_endpoint", name |-> name, url |-> url,
                            timeout |-> timeout, value |-> FALSE]
            /\ UNCHANGED << config, config_file, config_saves >>
       ELSE /\ config' = SetItem(config, name, [url |-> url, timeout |-> timeout])
            /\ config_file' = config'
            /\ config_saves' = config_saves + 1
            /\ returned' = [op |-> "add_endpoint", name |-> name, url |-> url,
                            timeout |-> timeout, value |-> TRUE]
    /\ NewCall
    /\ UNCHANGED << data_store, mode, pc, checked, appenders >>

(* --------------------------- probe executor --------------------------- *)

\* The verdict, were its upper bound inclusive.
is_available_inclusive(status_code) == 200 <= status_code /\ status_code <= 400

\* 200 <= status_code < 400
is_available(status_code) == 200 <= status_code /\ status_code < 400

\* The call _check_endpoint makes: requests.get(url, timeout=timeout, allow_redirects=True)
Request(endpoint_data) ==
    [ url |-> endpoint_data.url,
      timeout |-> IF "timeout" \in DOMAIN endpoint_data
                  THEN endpoint_data.timeout ELSE DEFAULT_TIMEOUT ]

\* _check_endpoint, were it to give every result an "error" key.
_check_endpoint_error_key(name, endpoint_data, response) ==
    [ name |-> name,
      url |-> endpoint_data.url,
      timestamp |-> Now,
      status_code |-> IF response.kind = "response" THEN Some(response.status_code) ELSE None,
      response_time |-> IF response.kind = "response" THEN Some(response.elapsed) ELSE None,
      is_available |-> response.kind = "response" /\ is_available(response.status_code),
      error |-> IF response.kind = "response" THEN "" ELSE response.message ]

\* _check_endpoint(name, endpoint_data), given what requests.get did.
\* The result dict has an "error" key only in the except branch.
_check_endpoint(name, endpoint_data, response) ==
    IF response.kind = "response"
    THEN [ name |-> name,
           url |-> endpoint_data.url,
           timestamp |-> Now,
           status_code |-> Some(response.status_code),
           response_time |-> Some(response.elapsed),
           is_available |-> is_available(response.status_code) ]
    ELSE [ name |-> name,
           url |-> endpoint_data.url,
           timestamp |-> Now,
           status_code |-> None,
           response_time |-> None,
           is_available |-> FALSE,
           error |-> response.message ]


(* ---------------------------- result store ---------------------------- *)

fieldnames == << "name", "url", "timestamp", "status_code",
                 "response_time", "is_available", "error" >>

\* What the csv writer puts in a cell: "" for None, str(value) otherwise.
IntCell(opt) == IF opt = None THEN "" ELSE ToString(opt[1])
BoolCell(b) == IF b THEN "True" ELSE "False"

\* DictWriter.writerow(result): a key the dict lacks is written as restval "".
writerow(result) ==
    << result.name,
       result.url,
       result.timestamp,
       IntCell(result.status_code),
       IntCell(result.response_time),
       BoolCell(result.is_available),
       IF "error" \in DOMAIN result THEN result.error ELSE "" >>

\* _save_result, were it to open the file with mode "w".
_save_result_truncate(store, result) ==
    [ exists |-> TRUE,
      lines |-> IF store.exists
                THEN << writerow(result) >>
                ELSE << fieldnames, writerow(result) >> ]

\* _save_result(result) on the store: the header goes first into a new file.
_save_result(store, result) ==
    [ exists |-> TRUE,
      lines |-> IF store.exists
                THEN Append(store.lines, writerow(result))
                ELSE << fieldnames, writerow(result) >> ]

\* The outcome rows of the store: its lines after the header.
Rows(store) == IF store.lines = <<>> THEN <<>> ELSE Tail(store.lines)

(* ------------------------------- fetch -------------------------------- *)

\* The comprehension, were it to build a list of pairs: a name given twice stays twice.
RECURSIVE DictCompList(_, _)
DictCompList(names, endpoints) ==
    IF names = <<>> THEN <<>>
    ELSE LET front == DictCompList(SubSeq(names, 1, Len(names) - 1), endpoints)
             name == names[Len(names)]
         IN  IF name \in Keys(endpoints)
             THEN Append(front, [name |-> name, data |-> Value(endpoints, name)])
             ELSE front

\* {name: endpoints[name] for name in endpoint_names if name in endpoints}
RECURSIVE DictComp(_, _)
DictComp(names, endpoints) ==
    IF names = <<>> THEN <<>>
    ELSE LET front == DictComp(SubSeq(names, 1, Len(names) - 1), endpoints)
             name == names[Len(names)]
         IN  IF name \in Keys(endpoints)
             THEN SetItem(front, name, Value(endpoints, name))
             ELSE front

\* The test of the argument, were it `if endpoint_names is not None`.
Truthy_is_not_None(names) == names # None

\* Python's truth value of the endpoint_names argument: None and [] are false.
Truthy(names) == names # None /\ names[1] # <<>>

\* The dict fetch goes through: to_check is self.config's own dict when no
\* filter was given (to_check = endpoints), and a new dict otherwise.
ToCheck == IF to_check = None THEN config ELSE to_check[1]

NotYet == [op |-> "none", value |-> FALSE]

\* The endpoint_names left when a fetch that fanned out returns: live's own
\* argument; the user's call is over.
Kept == IF mode = "live" THEN endpoint_names ELSE None

\* fetch_return, were live to leave its loop when a cycle brings no
\* available outcome.
fetch_return_break(m, names, value) ==
    /\ NoFrame
    /\ IF m = "live"
       THEN IF \E i \in 1..Len(value) : value[i].is_available
            THEN /\ mode' = "live"
                 /\ pc' = "sleep"
                 /\ driver' = "Sleeping"
                 /\ endpoint_names' = names
                 /\ UNCHANGED returned
            ELSE /\ mode' = "idle"
                 /\ pc' = "idle"
                 /\ driver' = "Stopped"
                 /\ endpoint_names' = names
                 /\ returned' = [op |-> "live", value |-> TRUE]
       ELSE /\ mode' = "idle"
            /\ pc' = "idle"
            /\ driver' = "Idle"
            /\ endpoint_names' = names
            /\ returned' = [op |-> "fetch", value |-> value]

\* fetch_return, were live's loop to lack the time.sleep(interval).
fetch_return_no_sleep(m, names, value) ==
    /\ NoFrame
    /\ endpoint_names' = names
    /\ IF m = "live"
       THEN /\ mode' = "live"
            /\ pc' = "loop"
            /\ driver' = "Running"
            /\ UNCHANGED returned
       ELSE /\ mode' = "idle"
            /\ pc' = "idle"
            /\ driver' = "Idle"
            /\ returned' = [op |-> "fetch", value |-> value]

\* fetch returns `value` to its caller: to the user (mode "fetch"), or to
\* live's loop, which goes on to time.sleep(interval). Its locals are gone.
fetch_return(m, names, value) ==
    /\ NoFrame
    /\ endpoint_names' = names
    /\ IF m = "live"
       THEN /\ mode' = "live"
            /\ pc' = "sleep"
            /\ driver' = "Sleeping"
            /\ UNCHANGED returned
       ELSE /\ mode' = "idle"
            /\ pc' = "idle"
            /\ driver' = "Idle"
            /\ returned' = [op |-> "fetch", value |-> value]

\* fetch_begin, were a filter that matches nothing to fall back to every endpoint.
fetch_begin_fallback(m, names) ==
    LET endpoints == config
        nothing == endpoints = <<>>
        chosen == IF Truthy(names) /\ DictComp(names[1], endpoints) # <<>>
                  THEN Some(DictComp(names[1], endpoints)) ELSE None
        n == IF chosen = None THEN Len(endpoints) ELSE Len(chosen[1])
    IN  /\ \/ Rows(data_store) = <<>>
           \/ Len(Rows(data_store)) + (IF nothing THEN 0 ELSE n) <= MaxRows
        /\ IF nothing
           THEN fetch_return(m, names, <<>>)
           ELSE /\ to_check' = chosen
                /\ future_to_endpoint' = <<>>
                /\ results' = <<>>
                /\ di_used' = None
                /\ endpoints_at_start' = endpoints
                /\ rows_before' = Rows(data_store)
                /\ probe_calls' = <<>>
                /\ mode' = m
                /\ pc' = "submit"
                /\ endpoint_names' = names
                /\ driver' = IF m = "live" THEN driver ELSE "Idle"
                /\ returned' = IF m = "live" THEN returned ELSE NotYet
        /\ UNCHANGED << registryVars, data_store, checked, appenders >>

\* fetch up to the creation of the executor (lines 131-149), called in mode m.
fetch_begin(m, names) ==
    LET endpoints == config
        filtered == DictComp(names[1], endpoints)
        nothing == \/ endpoints = <<>>
                   \/ Truthy(names) /\ filtered = <<>>
        chosen == IF Truthy(names) THEN Some(filtered) ELSE None
        n == IF Truthy(names) THEN Len(filtered) ELSE Len(endpoints)
    IN  /\ \/ Rows(data_store) = <<>>
           \/ Len(Rows(data_store)) + (IF nothing THEN 0 ELSE n) <= MaxRows
        /\ IF nothing
           THEN fetch_return(m, names, <<>>)
           ELSE /\ to_check' = chosen
                /\ future_to_endpoint' = <<>>
                /\ results' = <<>>
                /\ di_used' = None
                /\ endpoints_at_start' = endpoints
                /\ rows_before' = Rows(data_store)
                /\ probe_calls' = <<>>
                /\ mode' = m
                /\ pc' = "submit"
                /\ endpoint_names' = names
                /\ driver' = IF m = "live" THEN driver ELSE "Idle"
                /\ returned' = IF m = "live" THEN returned ELSE NotYet
        /\ UNCHANGED << registryVars, data_store, checked, appenders >>

\* fetch(endpoint_names), called by the user.
fetch(names) ==
    /\ pc = "idle"
    /\ fetch_begin("fetch", names)
    /\ interval' = 0
    /\ cancelled' = FALSE
    /\ cycles' = 0

\* One executor.submit(self._check_endpoint, name, data) of the dict
\* comprehension over to_check.items() (lines 150-153). The dict's iterator
\* raises RuntimeError (dictionary changed size during iteration) when the
\* dict is not of the size it had when the iteration began.
submit ==
    /\ pc = "submit"
    /\ LET i == Len(future_to_endpoint) + 1
           item == ToCheck[i]
       IN  IF di_used # None /\ di_used[1] # Len(ToCheck)
           THEN /\ pc' = "raise"
                /\ UNCHANGED << future_to_endpoint, di_used >>
           ELSE /\ future_to_endpoint' =
                      Append(future_to_endpoint,
                             [ name |-> item.name, endpoint_data |-> item.data,
                               state |-> "pending", request |-> None,
                               response |-> None, result |-> None ])
                /\ di_used' = Some(Len(ToCheck))
                /\ pc' = IF i >= Len(ToCheck) THEN "collect" ELSE "submit"
    /\ UNCHANGED << registryVars, data_store, mode, argVars, to_check, results,
                    endpoints_at_start, rows_before, probe_calls, driverVars,
                    returned, checked, appenders >>

Running == { i \in 1..Len(future_to_endpoint) : future_to_endpoint[i].state = "running" }
Pending == { i \in 1..Len(future_to_endpoint) : future_to_endpoint[i].state = "pending" }
AllDone == \A i \in 1..Len(future_to_endpoint) : future_to_endpoint[i].state = "done"

\* start_probe, were the pool to run one work item at a time.
start_probe_serial ==
    /\ Pending # {}
    /\ Running = {}
    /\ LET i == CHOOSE j \in Pending : \A k \in Pending : j <= k
           f == future_to_endpoint[i]
       IN  /\ future_to_endpoint' =
                 [future_to_endpoint EXCEPT ![i].state = "running",
                                            ![i].request = Some(Request(f.endpoint_data))]
           /\ probe_calls' = Append(probe_calls, f.name)
    /\ UNCHANGED << registryVars, data_store, mode, pc, argVars, to_check, results,
                    iterVars, rows_before, driverVars, returned, checked, appenders >>

\* A free thread of the pool takes the oldest work item of the queue and
\* calls _check_endpoint, which issues the request.
start_probe ==
    /\ Pending # {}
    /\ Cardinality(Running) < max_workers
    /\ LET i == CHOOSE j \in Pending : \A k \in Pending : j <= k
           f == future_to_endpoint[i]
       IN  /\ future_to_endpoint' =
                 [future_to_endpoint EXCEPT ![i].state = "running",
                                            ![i].request = Some(Request(f.endpoint_data))]
           /\ probe_calls' = Append(probe_calls, f.name)
    /\ UNCHANGED << registryVars, data_store, mode, pc, argVars, to_check, results,
                    iterVars, rows_before, driverVars, returned, checked, appenders >>

\* The request of future i ends with `response`; _check_endpoint returns
\* and the future holds its result.
finish_probe(i, response) ==
    /\ i \in Running
    /\ LET f == future_to_endpoint[i]
       IN  future_to_endpoint' =
              [future_to_endpoint EXCEPT
                  ![i].state = "done",
                  ![i].response = Some(response),
                  ![i].result = Some(_check_endpoint(f.name, f.endpoint_data, response))]
    /\ UNCHANGED << registryVars, data_store, mode, pc, argVars, to_check, results,
                    iterVars, rows_before, probe_calls, driverVars, returned,
                    checked, appenders >>

\* collect, were it to give up at the first failed probe and return what it has.
collect_short_circuit ==
    /\ pc = "collect"
    /\ LET k == Len(results) + 1
           f == future_to_endpoint[k]
       IN  /\ f.state = "done"
           /\ IF "error" \in DOMAIN f.result[1]
              THEN /\ fetch_return(mode, Kept, results)
                   /\ UNCHANGED << interval, cancelled, cycles >>
              ELSE /\ results' = Append(results, f.result[1])
                   /\ pc' = "save"
                   /\ UNCHANGED << mode, argVars, to_check, future_to_endpoint,
                                   iterVars, rows_before, probe_calls, driverVars,
                                   returned >>
    /\ UNCHANGED << registryVars, data_store, checked, appenders >>

\* collect, were the loop to go through as_completed(future_to_endpoint):
\* the next outcome is that of any future that is done and not yet taken.
collect_as_completed ==
    /\ pc = "collect"
    /\ \E k \in 1..Len(future_to_endpoint) :
          /\ future_to_endpoint[k].state = "done"
          /\ \A i \in 1..Len(results) : results[i].name # future_to_endpoint[k].name
          /\ results' = Append(results, future_to_endpoint[k].result[1])
    /\ pc' = "save"
    /\ UNCHANGED << registryVars, data_store, mode, argVars, to_check,
                    future_to_endpoint, iterVars, rows_before, probe_calls,
                    driverVars, returned, checked, appenders >>

\* result = future.result(); results.append(result)  (lines 155-157):
\* the calling thread waits for the next future, in submission order.
collect ==
    /\ pc = "collect"
    /\ LET k == Len(results) + 1
       IN  /\ future_to_endpoint[k].state = "done"
           /\ results' = Append(results, future_to_endpoint[k].result[1])
    /\ pc' = "save"
    /\ UNCHANGED << registryVars, data_store, mode, argVars, to_check,
                    future_to_endpoint, iterVars, rows_before, probe_calls,
                    driverVars, returned, checked, appenders >>

\* save, were it to persist only the outcomes that are available.
save_only_available ==
    /\ pc = "save"
    /\ data_store' = IF results[Len(results)].is_available
                     THEN _save_result(data_store, results[Len(results)])
                     ELSE data_store
    /\ IF Len(results) = Len(future_to_endpoint)
       THEN fetch_return(mode, Kept, results)
       ELSE /\ pc' = "collect"
            /\ UNCHANGED << mode, returned, driver, endpoint_names, frameVars >>
    /\ UNCHANGED << registryVars, interval, cancelled, cycles, checked, appenders >>

\* save, were fetch to return as soon as the next future is not done yet
\* (polling future.done() instead of waiting in future.result()).
save_no_wait ==
    /\ pc = "save"
    /\ data_store' = _save_result(data_store, results[Len(results)])
    /\ IF \/ Len(results) = Len(future_to_endpoint)
          \/ future_to_endpoint[Len(results) + 1].state # "done"
       THEN fetch_return(mode, Kept, results)
       ELSE /\ pc' = "collect"
            /\ UNCHANGED << mode, returned, driver, endpoint_names, frameVars >>
    /\ UNCHANGED << registryVars, interval, cancelled, cycles, checked, appenders >>

\* save, were the outcomes written in one batch after the last future.
RECURSIVE SaveAll(_, _)
SaveAll(store, outcomes) ==
    IF outcomes = <<>> THEN store
    ELSE SaveAll(_save_result(store, Head(outcomes)), Tail(outcomes))
save_batched ==
    /\ pc = "save"
    /\ IF Len(results) = Len(future_to_endpoint)
       THEN /\ data_store' = SaveAll(data_store, results)
            /\ fetch_return(mode, Kept, results)
       ELSE /\ pc' = "collect"
            /\ UNCHANGED << data_store, mode, returned, driver, endpoint_names, frameVars >>
    /\ UNCHANGED << registryVars, interval, cancelled, cycles, checked, appenders >>

\* self._save_result(result) (line 158); after the last future the with
\* block ends (every future is done) and fetch returns results.
save ==
    /\ pc = "save"
    /\ data_store' = _save_result(data_store, results[Len(results)])
    /\ IF Len(results) = Len(future_to_endpoint)
       THEN fetch_return(mode, Kept, results)
       ELSE /\ pc' = "collect"
            /\ UNCHANGED << mode, returned, driver, endpoint_names, frameVars >>
    /\ UNCHANGED << registryVars, interval, cancelled, cycles, checked, appenders >>

(* -------------------------------- live -------------------------------- *)

\* live(interval, endpoint_names) up to the loop.
live(ivl, names) ==
    /\ pc = "idle"
    /\ mode' = "live"
    /\ pc' = "loop"
    /\ driver' = "Running"
    /\ cancelled' = FALSE
    /\ cycles' = 0
    /\ endpoint_names' = names
    /\ interval' = ivl
    /\ NoFrame
    /\ returned' = NotYet
    /\ UNCHANGED << registryVars, data_store, checked, appenders >>

\* results = self.fetch(endpoint_names, output=output)
live_fetch ==
    /\ mode = "live"
    /\ pc = "loop"
    /\ cycles < MaxCycles
    /\ cycles' = cycles + 1
    /\ fetch_begin("live", endpoint_names)
    /\ UNCHANGED << interval, cancelled >>

\* time.sleep(interval) returns.
sleep_elapsed ==
    /\ mode = "live"
    /\ pc = "sleep"
    /\ pc' = "loop"
    /\ driver' = "Running"
    /\ UNCHANGED << registryVars, data_store, mode, argVars, frameVars,
                    cancelled, cycles, returned, checked, appenders >>

\* except KeyboardInterrupt: live prints and returns.
live_stopped ==
    /\ driver' = "Stopped"
    /\ mode' = "idle"
    /\ pc' = "idle"
    /\ returned' = [op |-> "live", value |-> TRUE]
    /\ endpoint_names' = None
    /\ interval' = 0
    /\ NoFrame

\* KeyboardInterrupt, were fetch to catch it inside the with block and go on.
KeyboardInterrupt_swallowed ==
    /\ mode = "live"
    /\ pc \in {"loop", "submit", "collect", "save", "sleep"}
    /\ ~cancelled
    /\ cancelled' = TRUE
    /\ IF pc \in {"submit", "collect", "save"}
       THEN UNCHANGED << mode, pc, driver, returned, argVars, frameVars >>
       ELSE live_stopped
    /\ UNCHANGED << registryVars, data_store, cycles, checked, appenders >>

\* KeyboardInterrupt, were time.sleep to hold the signal back: an interrupt
\* in the sleep is only noted, and the loop goes on.
KeyboardInterrupt_held_in_sleep ==
    /\ mode = "live"
    /\ pc \in {"loop", "submit", "collect", "save", "sleep"}
    /\ cancelled' = TRUE
    /\ IF pc \in {"submit", "collect", "save"}
       THEN /\ pc' = "shutdown"
            /\ UNCHANGED << mode, driver, returned, argVars, frameVars >>
       ELSE IF pc = "sleep"
            THEN UNCHANGED << mode, pc, driver, returned, argVars, frameVars >>
            ELSE live_stopped
    /\ UNCHANGED << registryVars, data_store, cycles, checked, appenders >>

\* Ctrl+C: KeyboardInterrupt is raised in the calling thread. Inside the
\* with block it first runs executor.__exit__, shutdown(wait=True).
KeyboardInterrupt ==
    /\ mode = "live"
    /\ pc \in {"loop", "submit", "collect", "save", "sleep"}
    /\ cancelled' = TRUE
    /\ IF pc \in {"submit", "collect", "save"}
       THEN /\ pc' = "shutdown"
            /\ UNCHANGED << mode, driver, returned, argVars, frameVars >>
       ELSE live_stopped
    /\ UNCHANGED << registryVars, data_store, cycles, checked, appenders >>

\* shutdown_done, were the with block to leave with shutdown(wait=False).
shutdown_no_wait ==
    /\ pc = "shutdown"
    /\ live_stopped
    /\ UNCHANGED << registryVars, data_store, cancelled, cycles, checked, appenders >>

\* shutdown(wait=True) returns once the pool's threads have run every
\* submitted work item; the exception then reaches live's handler.
shutdown_done ==
    /\ pc = "shutdown"
    /\ AllDone
    /\ live_stopped
    /\ UNCHANGED << registryVars, data_store, cancelled, cycles, checked, appenders >>

(* ------------------------------ history ------------------------------- *)

\* int(cell), float(cell): the number whose text the cell is, among the
\* numbers a fan-out can have written.
Written == UNION { {r.status_code, r.elapsed} : r \in { x \in Responses : x.kind = "response" } }
ParseNumber(cell) == CHOOSE n \in Written : ToString(n) = cell
\* cell.lower()
lower(cell) == IF cell = "True" THEN "true" ELSE IF cell = "False" THEN "false" ELSE cell

\* One DictReader row after history's conversions (lines 229-241).
ParseRow(line) ==
    [ name |-> line[1],
      url |-> line[2],
      timestamp |-> line[3],
      status_code |-> IF line[4] # "" /\ line[4] # "None"
                      THEN Some(ParseNumber(line[4])) ELSE None,
      response_time |-> IF line[5] # "" /\ line[5] # "None"
                        THEN Some(ParseNumber(line[5])) ELSE None,
      is_available |-> lower(line[6]) = "true",
      error |-> line[7] ]

RECURSIVE SelectRows(_, _)
SelectRows(lines, names) ==
    IF lines = <<>> THEN <<>>
    ELSE LET row == ParseRow(Head(lines))
             rest == SelectRows(Tail(lines), names)
         IN  IF Truthy(names) /\ \A i \in 1..Len(names[1]) : names[1][i] # row.name
             THEN rest
             ELSE << row >> \o rest

\* history(endpoint_names): the rows it hands to _print_results, or None
\* when there is no store.
history(names) ==
    /\ pc = "idle"
    /\ returned' = [ op |-> "history",
                     names |-> names,
                     value |-> IF data_store.exists
                               THEN Some(SelectRows(Rows(data_store), names))
                               ELSE None ]
    /\ NewCall
    /\ UNCHANGED << registryVars, data_store, mode, pc, checked, appenders >>

(* --------------------------- specifications --------------------------- *)

\* The state after EndpointMonitor() on a fresh CONFIG_DIR.
InitMonitor ==
    /\ config = _load_config
    /\ config_file = _load_config
    /\ config_saves = 0
    /\ first_add = [n \in Names \cup LateNames |-> None]
    /\ data_store = [exists |-> FALSE, lines |-> <<>>]
    /\ mode = "idle"
    /\ pc = "idle"
    /\ endpoint_names = None
    /\ interval = 0
    /\ to_check = None
    /\ future_to_endpoint = <<>>
    /\ results = <<>>
    /\ di_used = None
    /\ endpoints_at_start = <<>>
    /\ rows_before = <<>>
    /\ probe_calls = <<>>
    /\ driver = "Idle"
    /\ cancelled = FALSE
    /\ cycles = 0
    /\ returned = NotYet

Init == InitMonitor /\ checked = None /\ appenders = <<>>

Next ==
    \/ \E name \in Names, t \in Targets : add_endpoint(name, t.url, t.timeout)
    \/ \E names \in Filters : fetch(names)
    \/ submit
    \/ start_probe
    \/ \E i \in 1..Len(future_to_endpoint), response \in Responses : finish_probe(i, response)
    \/ collect
    \/ save
    \/ \E ivl \in Intervals, names \in Filters : live(ivl, names)
    \/ live_fetch
    \/ sleep_elapsed
    \/ KeyboardInterrupt
    \/ shutdown_done
    \/ \E names \in Filters : history(names)

Spec == Init /\ [][Next]_vars

(* --------------------- the probe executor on its own ------------------- *)

\* The endpoint_data a caller may hand to _check_endpoint: with a timeout, or without.
ProbeData == Targets \cup { [url |-> t.url] : t \in Targets }

\* A direct call _check_endpoint(name, endpoint_data) that is about to be
\* made, with what requests.get will do.
ProbeCall(name, endpoint_data, response) ==
    [ name |-> name, endpoint_data |-> endpoint_data, response |-> response,
      request |-> None, result |-> None ]

\* The call is made.
check_endpoint_call ==
    /\ checked # None
    /\ checked[1].result = None
    /\ LET c == checked[1]
       IN  checked' = Some([ c EXCEPT
                !.request = Some(Request(c.endpoint_data)),
                !.result = Some(_check_endpoint(c.name, c.endpoint_data, c.response)) ])
    /\ UNCHANGED << registryVars, data_store, mode, pc, argVars, frameVars,
                    driverVars, returned, appenders >>

InitProbe ==
    /\ InitMonitor
    /\ checked \in { Some(ProbeCall(name, endpoint_data, response)) :
                        name \in Names, endpoint_data \in ProbeData,
                        response \in ProbeResponses }
    /\ appenders = <<>>

NextProbe == check_endpoint_call

SpecProbe == InitProbe /\ [][NextProbe]_vars

(* ----------------------- the live loop, scheduled ---------------------- *)

\* The pool's threads run, every request ends (each has a timeout), and the
\* calling thread leaves shutdown(wait=True) once the threads are through.
FairSpec ==
    /\ Spec
    /\ WF_vars(start_probe)
    /\ WF_vars(\E i \in 1..Len(future_to_endpoint), response \in Responses :
                   finish_probe(i, response))
    /\ WF_vars(shutdown_done)

(* ----------------- one monitor object, shared by two threads ------------ *)

\* add_endpoint(name, url, timeout) called on the same EndpointMonitor by a
\* second thread while the first is inside fetch's with block: it works on
\* the same self.config["endpoints"] dict.
add_endpoint_thread(name, url, timeout) ==
    /\ mode = "fetch"
    /\ pc \in {"submit", "collect", "save"}
    /\ first_add' = IF first_add[name] = None
                    THEN [first_add EXCEPT ![name] = Some([url |-> url, timeout |-> timeout])]
                    ELSE first_add
    /\ IF name \in Keys(config)
       THEN UNCHANGED << config, config_file, config_saves >>
       ELSE /\ config' = SetItem(config, name, [url |-> url, timeout |-> timeout])
            /\ config_file' = config'
            /\ config_saves' = config_saves + 1
    /\ UNCHANGED << data_store, mode, pc, argVars, frameVars, driverVars,
                    returned, checked, appenders >>

\* The RuntimeError of the iteration leaves the with block, whose
\* shutdown(wait=True) waits for the probes submitted so far, and then fetch:
\* the user's call ends with the exception.
fetch_raise ==
    /\ mode = "fetch"
    /\ pc = "raise"
    /\ AllDone
    /\ NoFrame
    /\ mode' = "idle"
    /\ pc' = "idle"
    /\ returned' = [op |-> "fetch raised", value |-> "RuntimeError"]
    /\ UNCHANGED << registryVars, data_store, argVars, driverVars, checked, appenders >>

NextShared ==
    \/ \E name \in Names, t \in Targets : add_endpoint(name, t.url, t.timeout)
    \/ \E names \in Filters : fetch(names)
    \/ submit
    \/ start_probe
    \/ \E i \in 1..Len(future_to_endpoint), response \in Responses : finish_probe(i, response)
    \/ collect
    \/ save
    \/ \E name \in Names \cup LateNames, t \in Targets : add_endpoint_thread(name, t.url, t.timeout)
    \/ fetch_raise

SpecShared == Init /\ [][NextShared]_vars

(* ------------- the result store, appended to by several processes ------- *)

\* The outcomes the processes append.
SinkResults ==
    { _check_endpoint(name, [url |-> "Ua", timeout |-> 5], response) :
         name \in Names, response \in { Response(200, 50), Raised("Connection refused") } }

notSinkVars == << registryVars, mode, pc, argVars, frameVars, driverVars,
                 returned, checked >>

\* A process (a fetch or live run on the same CONFIG_DIR) calls _save_result(result).
save_result_call(result) ==
    /\ Len(appenders) < MaxAppenders
    /\ appenders' = Append(appenders, [pc |-> "exists", file_exists |-> FALSE,
                                       result |-> result])
    /\ UNCHANGED << data_store, notSinkVars >>

\* file_exists = os.path.exists(DATA_STORE_FILE)  (line 115)
exists_check(p) ==
    /\ appenders[p].pc = "exists"
    /\ appenders' = [appenders EXCEPT ![p].pc = "open",
                                      ![p].file_exists = data_store.exists]
    /\ UNCHANGED << data_store, notSinkVars >>

\* open(DATA_STORE_FILE, "a", newline="")  (line 117): creates the file when
\* there is none.
open_append(p) ==
    /\ appenders[p].pc = "open"
    /\ appenders' = [appenders EXCEPT ![p].pc = "write"]
    /\ data_store' = [data_store EXCEPT !.exists = TRUE]
    /\ UNCHANGED notSinkVars

\* writeheader() if not file_exists, writerow(result), and the end of the
\* with block (lines 124-127): the buffered text reaches the end of the file
\* in one write when the file is closed.
write_close(p) ==
    /\ appenders[p].pc = "write"
    /\ appenders' = [appenders EXCEPT ![p].pc = "done"]
    /\ data_store' =
          [data_store EXCEPT !.lines =
              @ \o (IF appenders[p].file_exists THEN <<>> ELSE << fieldnames >>)
                \o << writerow(appenders[p].result) >>]
    /\ UNCHANGED notSinkVars

NextSink ==
    \/ \E result \in SinkResults : save_result_call(result)
    \/ \E p \in 1..Len(appenders) : exists_check(p)
    \/ \E p \in 1..Len(appenders) : open_append(p)
    \/ \E p \in 1..Len(appenders) : write_close(p)

SpecSink == Init /\ [][NextSink]_vars

(* --------------- a registry of more endpoints than the pool ------------- *)

\* CONFIG_FILE as an earlier run left it, with one endpoint more than the
\* pool has threads; _load_config returns it (lines 50-52).
PoolRegistry ==
    [ i \in 1..(max_workers + 1) |->
        [ name |-> "e" \o ToString(i), data |-> [url |-> "Ua", timeout |-> 5] ] ]

InitPool ==
    /\ config = PoolRegistry
    /\ config_file = PoolRegistry
    /\ config_saves = 0
    /\ first_add = [n \in Names \cup LateNames |-> None]
    /\ data_store = [exists |-> FALSE, lines |-> <<>>]
    /\ mode = "idle"
    /\ pc = "idle"
    /\ endpoint_names = None
    /\ interval = 0
    /\ to_check = None
    /\ future_to_endpoint = <<>>
    /\ results = <<>>
    /\ di_used = None
    /\ endpoints_at_start = <<>>
    /\ rows_before = <<>>
    /\ probe_calls = <<>>
    /\ driver = "Idle"
    /\ cancelled = FALSE
    /\ cycles = 0
    /\ returned = NotYet
    /\ checked = None
    /\ appenders = <<>>

NextPool ==
    \/ fetch(None)
    \/ submit
    \/ start_probe
    \/ \E i \in 1..Len(future_to_endpoint), response \in Responses : finish_probe(i, response)
    \/ collect
    \/ save

SpecPool == InitPool /\ [][NextPool]_vars

(* ------------------------------- claims -------------------------------- *)

\* The calling thread is inside fetch's with block.
FanOutPcs == {"submit", "collect", "save"}

\* The step in which a fetch that fanned out returns to its caller.
FanOutReturns == pc \in FanOutPcs /\ pc' \notin (FanOutPcs \cup {"shutdown", "raise"})

\* The step in which fetch is called (by the user, or by live's loop); its
\* endpoint_names argument is endpoint_names'.
FetchCalled ==
    \/ pc = "idle" /\ (pc' = "submit" \/ (pc' = "idle" /\ returned'.op = "fetch"))
    \/ pc = "loop" /\ pc' \in {"submit", "sleep"}

Count(seq, name) == Cardinality({ i \in 1..Len(seq) : seq[i] = name })
NamesOf(seq) == [ i \in 1..Len(seq) |-> seq[i].name ]
IsPrefix(p, q) == Len(p) <= Len(q) /\ SubSeq(q, 1, Len(p)) = p

\* C1: a fetch without a subset filter over a registry of N >= 1 endpoints
\* fans out, and when it returns _check_endpoint has been called exactly once
\* per registered endpoint, exactly N rows have been appended to the store,
\* and the list returned holds exactly N outcomes, one per endpoint name,
\* whatever the probes met.
C1_Step ==
    /\ (FetchCalled /\ ~Truthy(endpoint_names') /\ config # <<>>) => pc' = "submit"
    /\ (FanOutReturns /\ ~Truthy(endpoint_names)) =>
          LET N == Len(config)
          IN  /\ N >= 1
              /\ Len(probe_calls) = N
              /\ \A name \in Keys(config) : Count(probe_calls, name) = 1
              /\ IsPrefix(rows_before, Rows(data_store'))
              /\ Len(Rows(data_store')) = Len(rows_before) + N
              /\ Len(results) = N
              /\ \A name \in Keys(config) : Count(NamesOf(results), name) = 1
              /\ mode = "fetch" => returned' = [op |-> "fetch", value |-> results]
C1_FanOutOnePerEndpoint == [][C1_Step]_vars

\* A fetch without filter over two endpoints has collected both outcomes,
\* one up and one failed, saved the first and is about to save the last.
C1_Witness ==
    /\ mode = "fetch"
    /\ pc = "save"
    /\ endpoint_names = None
    /\ Len(config) = 2
    /\ Len(results) = 2
    /\ Len(Rows(data_store)) = Len(rows_before) + 1
    /\ \E i, j \in 1..2 : /\ results[i].is_available
                          /\ "error" \in DOMAIN results[j]

\* A probe of the cycle whose exchange did not complete.
Failed(f) == f.response # None /\ f.response[1].kind = "exception"

\* C2: when probes of a cycle fail, the cycle is not aborted: fetch returns
\* only with every probe of the cycle done, every outcome (the siblings' too)
\* in the list returned and appended to the store, and a failed probe is there
\* as an outcome with is_available false and an error.
C2_Step ==
    (FanOutReturns /\ \E i \in 1..Len(future_to_endpoint) : Failed(future_to_endpoint[i])) =>
        /\ Len(future_to_endpoint) = Len(ToCheck)
        /\ Len(results) = Len(future_to_endpoint)
        /\ Len(Rows(data_store')) = Len(rows_before) + Len(future_to_endpoint)
        /\ \A i \in 1..Len(future_to_endpoint) :
              LET f == future_to_endpoint[i]
              IN  /\ f.state = "done"
                  /\ results[i] = f.result[1]
                  /\ Rows(data_store')[Len(rows_before) + i] = writerow(f.result[1])
                  /\ Failed(f) => /\ ~results[i].is_available
                                  /\ "error" \in DOMAIN results[i]
                                  /\ results[i].error = f.response[1].message
        /\ mode = "fetch" => returned' = [op |-> "fetch", value |-> results]
C2_FailuresIsolated == [][C2_Step]_vars

\* A fetch returned the outcome of a failed probe first and of a sibling that
\* answered after it, and both are in the store.
C2_Witness ==
    /\ returned.op = "fetch"
    /\ Len(returned.value) = 2
    /\ "error" \in DOMAIN returned.value[1]
    /\ returned.value[2].is_available
    /\ Rows(data_store) = << writerow(returned.value[1]), writerow(returned.value[2]) >>

\* C3: fetch returns its list only after every probe submitted in the cycle
\* has completed: at the return no future is pending or running, every entry
\* of to_check was submitted, and the list holds one outcome per future.
C3_Step ==
    FanOutReturns =>
        /\ Pending = {} /\ Running = {}
        /\ Len(future_to_endpoint) = Len(ToCheck)
        /\ Len(results) = Len(future_to_endpoint)
C3_ReturnsAfterAllProbes == [][C3_Step]_vars

\* The calling thread waits in future.result() for the first future while the
\* second, submitted later, is already done.
C3_Witness ==
    /\ pc = "collect"
    /\ Len(future_to_endpoint) = 2
    /\ results = <<>>
    /\ future_to_endpoint[1].state = "running"
    /\ future_to_endpoint[2].state = "done"

\* C4: the verdict of a probe is true if and only if the exchange completed
\* with a status code s, 200 <= s < 400; any other status code, and an
\* exchange that did not complete, give is_available false.
C4_AvailabilityVerdict ==
    (checked # None /\ checked[1].result # None) =>
        LET response == checked[1].response
            result == checked[1].result[1]
        IN  result.is_available <=>
               /\ response.kind = "response"
               /\ response.status_code \in 200..399

\* A probe met status code 400, the first one past the range, and is not available.
C4_Witness ==
    /\ checked # None
    /\ checked[1].result # None
    /\ checked[1].response.kind = "response"
    /\ checked[1].response.status_code = 400
    /\ ~checked[1].result[1].is_available

\* The two shapes of an outcome.
CompletedShape(o) ==
    /\ o.status_code # None
    /\ o.response_time # None
    /\ "error" \notin DOMAIN o
FailedShape(o) ==
    /\ o.status_code = None
    /\ o.response_time = None
    /\ ~o.is_available
    /\ "error" \in DOMAIN o
    /\ o.error # ""
OneShape(o) ==
    /\ CompletedShape(o) \/ FailedShape(o)
    /\ ~(CompletedShape(o) /\ FailedShape(o))

\* C5: every outcome _check_endpoint has produced for a future, and every
\* outcome in a fetch's results list or in the list it returned, has exactly
\* one of two shapes: status code and latency present and no error, when the
\* exchange completed; status code and latency absent, is_available false and
\* a non-empty error, when it did not.
C5_OutcomeShapes ==
    /\ \A i \in 1..Len(future_to_endpoint) :
          LET f == future_to_endpoint[i]
          IN  f.result # None =>
                 /\ OneShape(f.result[1])
                 /\ CompletedShape(f.result[1]) <=> f.response[1].kind = "response"
    /\ \A i \in 1..Len(results) : OneShape(results[i])
    /\ returned.op = "fetch" => \A i \in 1..Len(returned.value) : OneShape(returned.value[i])

\* A fetch returned one outcome of each shape, the completed one being an HTTP error.
C5_Witness ==
    /\ returned.op = "fetch"
    /\ Len(returned.value) = 2
    /\ CompletedShape(returned.value[1]) /\ ~returned.value[1].is_available
    /\ FailedShape(returned.value[2])

\* The registered names a filter holds.
Wanted(names) == { names[1][i] : i \in 1..Len(names[1]) } \cap Keys(config)

\* C6: a fetch whose subset filter names at least one registered endpoint
\* fans out over exactly the distinct registered names of the filter: each is
\* probed once, with the url and timeout registered for it; a name that is
\* not registered is dropped without a probe, and a registered name that is
\* not in the filter is not probed.
C6_Step ==
    /\ (FetchCalled /\ Truthy(endpoint_names') /\ Wanted(endpoint_names') # {}) =>
          /\ pc' = "submit"
          /\ to_check' # None
          /\ Keys(to_check'[1]) = Wanted(endpoint_names')
    /\ (FanOutReturns /\ Truthy(endpoint_names)) =>
          /\ \A name \in Names :
                Count(probe_calls, name) = IF name \in Wanted(endpoint_names) THEN 1 ELSE 0
          /\ Len(results) = Cardinality(Wanted(endpoint_names))
          /\ \A i \in 1..Len(future_to_endpoint) :
                LET f == future_to_endpoint[i]
                IN  f.request = Some([ url |-> Value(config, f.name).url,
                                       timeout |-> Value(config, f.name).timeout ])
C6_FilterSelects == [][C6_Step]_vars

\* A fetch whose filter names an unknown endpoint and then a registered one
\* has probed the registered one alone and is about to save its outcome.
C6_Witness ==
    /\ mode = "fetch"
    /\ pc = "save"
    /\ Truthy(endpoint_names)
    /\ Len(endpoint_names[1]) = 2
    /\ endpoint_names[1][1] \notin Keys(config)
    /\ endpoint_names[1][2] \in Keys(config)
    /\ Len(future_to_endpoint) = 1
    /\ Len(results) = 1
    /\ probe_calls = << endpoint_names[1][2] >>

\* C7: when there is nothing to probe (the registry is empty, or the filter
\* names no registered endpoint), fetch returns an empty list at once: no
\* future is submitted, no probe runs and the store is left as it was.
C7_Step ==
    (FetchCalled /\ (config = <<>> \/ (Truthy(endpoint_names') /\ Wanted(endpoint_names') = {}))) =>
        /\ pc' \in {"idle", "sleep"}
        /\ future_to_endpoint' = <<>>
        /\ probe_calls' = <<>>
        /\ data_store' = data_store
        /\ pc = "idle" => returned' = [op |-> "fetch", value |-> <<>>]
C7_NothingToProbe == [][C7_Step]_vars

\* On a registry that is not empty and a store that has rows, a fetch whose
\* filter names only unknown endpoints has returned the empty list.
C7_Witness ==
    /\ returned = [op |-> "fetch", value |-> <<>>]
    /\ config # <<>>
    /\ Truthy(endpoint_names)
    /\ Rows(data_store) # <<>>

\* C8: add_endpoint with a name that is registered returns False and changes
\* nothing: the entry keeps its url and timeout, no other entry changes, the
\* file is not written. So every name maps to the url and timeout of the
\* first add_endpoint for it, in the registry and in its file.
C8_Step ==
    /\ \A i \in 1..Len(config) : i <= Len(config') /\ config'[i] = config[i]
    /\ (returned'.op = "add_endpoint" /\ returned'.name \in Keys(config)) =>
          /\ returned'.value = FALSE
          /\ config' = config
          /\ config_file' = config_file
          /\ config_saves' = config_saves
C8_State ==
    /\ config_file = config
    /\ \A name \in Keys(config) : first_add[name] = Some(Value(config, name))
C8_DuplicateAddRejected == [][C8_Step /\ C8_State']_vars

\* add_endpoint was called for a registered name with another url and
\* returned False.
C8_Witness ==
    /\ returned.op = "add_endpoint"
    /\ returned.value = FALSE
    /\ returned.name \in Keys(config)
    /\ returned.url # Value(config, returned.name).url
    /\ Len(config) = 2

\* C9: live leaves its loop, and the driver reaches Stopped, only by a
\* KeyboardInterrupt: whatever a cycle brings (failed probes, nothing to
\* probe), the driver stays in Running / Sleeping until it is cancelled.
C9_Step ==
    /\ (mode = "live" /\ mode' # "live") => cancelled'
    /\ (driver # "Stopped" /\ driver' = "Stopped") => cancelled'
    /\ (mode = "live" /\ ~cancelled') =>
          /\ mode' = "live"
          /\ driver' \in {"Running", "Sleeping"}
C9_StopsOnlyOnCancel == [][C9_Step]_vars

\* live, not cancelled, sleeps after its last cycle over the whole registry,
\* and the last probe failed.
C9_Witness ==
    /\ mode = "live"
    /\ driver = "Sleeping"
    /\ ~cancelled
    /\ cycles = MaxCycles
    /\ endpoint_names = None
    /\ config # <<>>
    /\ Len(Rows(data_store)) >= cycles
    /\ Rows(data_store)[Len(Rows(data_store))][7] # ""

\* C10: once a KeyboardInterrupt has been delivered to live, in the sleep
\* or during a fan-out, live calls fetch no more, submits no further probe,
\* and the driver reaches Stopped.
C10_Step ==
    (cancelled /\ cancelled') =>
        /\ cycles' = cycles
        /\ Len(future_to_endpoint') <= Len(future_to_endpoint)
C10_CancelStops ==
    /\ [][C10_Step]_vars
    /\ [](cancelled => <>(driver = "Stopped"))

\* The KeyboardInterrupt arrived during a fan-out: the calling thread waits
\* in shutdown for a probe that is running and one that has not started.
C10_Witness ==
    /\ pc = "shutdown"
    /\ cancelled
    /\ driver = "Running"
    /\ Running # {}
    /\ Pending # {}

\* C11: with interval 0, a KeyboardInterrupt delivered after live's first
\* cycle has returned and before its second fetch is called (in the sleep, or
\* back at the top of the loop) stops the driver at once: live has run
\* exactly one fan-out cycle. cycles counts live's calls of fetch.
C11_Step ==
    /\ (mode = "live" /\ pc = "loop" /\ pc' # "loop" /\ ~cancelled') =>
          /\ cycles' = cycles + 1
          /\ FetchCalled
    /\ (mode = "live" /\ cycles' # cycles) => pc = "loop"
    /\ (mode = "live" /\ interval = 0 /\ cycles = 1 /\ pc \in {"sleep", "loop"}
          /\ ~cancelled /\ cancelled') =>
          /\ driver' = "Stopped"
          /\ mode' = "idle"
          /\ cycles' = 1
          /\ future_to_endpoint' = <<>>
C11_OneCycleThenStopped == [][C11_Step]_vars

\* live over a registry of one endpoint was stopped after its one cycle,
\* whose outcome filled the store.
C11_Witness ==
    /\ driver = "Stopped"
    /\ cancelled
    /\ cycles = 1
    /\ interval = 0
    /\ Len(config) = 1
    /\ Len(Rows(data_store)) = MaxRows

\* The futures of the cycle whose probe has completed.
Done == { i \in 1..Len(future_to_endpoint) : future_to_endpoint[i].state = "done" }

\* The step in which a fan-out ends: fetch returns, or the exception that
\* met it leaves the with block.
FanOutEnds ==
    /\ pc \in FanOutPcs \cup {"shutdown", "raise"}
    /\ pc' \notin FanOutPcs \cup {"shutdown", "raise"}

\* C12: in every run of fetch or live, also when a KeyboardInterrupt arrives
\* during a fan-out, every probe that completed has its outcome appended to
\* the store exactly once, one append per probe: when the fan-out ends, the
\* rows appended since it began are one per completed probe.
C12_Step ==
    /\ Len(Rows(data_store')) <= Len(Rows(data_store)) + 1
    /\ FanOutEnds =>
          /\ Len(Rows(data_store')) = Len(rows_before) + Cardinality(Done)
          /\ \A i \in Done :
                \E k \in 1..Len(Rows(data_store')) :
                    /\ k > Len(rows_before)
                    /\ Rows(data_store')[k] = writerow(future_to_endpoint[i].result[1])
C12_CompletedProbesPersisted == [][C12_Step]_vars

\* The names the cycle is to probe, by the registry as it was when the cycle
\* began and the filter of the call.
SnapshotNames ==
    IF Truthy(endpoint_names)
    THEN { endpoint_names[1][i] : i \in 1..Len(endpoint_names[1]) } \cap Keys(endpoints_at_start)
    ELSE Keys(endpoints_at_start)

\* C13: the endpoints probed in a cycle are exactly the registry as it was
\* when the cycle began, also when add_endpoint runs during the cycle: every
\* future is for an endpoint of that registry, with the url and timeout it had
\* there, once they are all submitted they are one per endpoint of it, and
\* the cycle does not fail.
C13_ProbesTheSnapshot ==
    pc \in FanOutPcs \cup {"raise"} =>
        /\ \A i \in 1..Len(future_to_endpoint) :
              LET f == future_to_endpoint[i]
              IN  /\ f.name \in SnapshotNames
                  /\ f.endpoint_data = Value(endpoints_at_start, f.name)
                  /\ f.request # None =>
                        f.request[1] = Request(Value(endpoints_at_start, f.name))
        /\ pc \in {"collect", "save"} =>
              { future_to_endpoint[i].name : i \in 1..Len(future_to_endpoint) } = SnapshotNames
        /\ pc # "raise"

\* C14: _save_result is safe when called concurrently: whatever the
\* interleaving of k calls, on a store that does not exist yet or on one that
\* does, once they are through the store is one header line, its first line,
\* followed by exactly k outcome rows, one per call; and no call changes a
\* line written before.
C14_Quiescent ==
    /\ appenders # <<>>
    /\ \A p \in 1..Len(appenders) : appenders[p].pc = "done"
C14_ConcurrentAppendSafe ==
    /\ \A p \in 1..Len(appenders) :
          appenders[p].pc = "done" =>
             \E k \in 1..Len(data_store.lines) :
                 data_store.lines[k] = writerow(appenders[p].result)
    /\ C14_Quiescent =>
          /\ data_store.lines[1] = fieldnames
          /\ Len(data_store.lines) = 1 + Len(appenders)
          /\ \A k \in 2..Len(data_store.lines) : data_store.lines[k] # fieldnames

\* C15: the persisted history is append-only. Whatever add_endpoint, fetch,
\* live and history do, the lines of the store after a step extend the lines
\* before it (no line is changed, moved or removed) and the store does not
\* vanish; only a fan-out's _save_result changes the store, by one row (and
\* the header of a new file); so history called again with the same filter,
\* with no fetch or live between, gives the same sequence of outcomes.
C15_Step ==
    /\ IsPrefix(data_store.lines, data_store'.lines)
    /\ data_store.exists => data_store'.exists
    /\ data_store' # data_store =>
          /\ pc = "save"
          /\ mode \in {"fetch", "live"}
          /\ Len(Rows(data_store')) = Len(Rows(data_store)) + 1
          /\ data_store'.lines[1] = fieldnames
    /\ (returned'.op \in {"history", "add_endpoint"} /\ pc = "idle") =>
          data_store' = data_store
    /\ (returned.op = "history" /\ returned'.op = "history"
          /\ returned'.names = returned.names) =>
          returned'.value = returned.value
C15_AppendOnly == [][C15_Step]_vars

\* history, called with a filter that names one of two endpoints, has shown
\* the one row of that endpoint out of the two rows of the store.
C15_Witness ==
    /\ returned.op = "history"
    /\ Truthy(returned.names)
    /\ Len(Rows(data_store)) = 2
    /\ returned.value # None
    /\ Len(returned.value[1]) = 1
    /\ \E k \in 1..2 : Rows(data_store)[k][1] # returned.value[1][1].name

\* A future goes forward only: pending, running, done.
Forward(f, g) ==
    /\ g.name = f.name
    /\ f.state = "running" => g.state \in {"running", "done"}
    /\ f.state = "done" => g = f

\* C16: a KeyboardInterrupt that arrives during a fan-out aborts no probe of
\* the cycle: the interrupt itself leaves every future as it is and does not
\* stop the driver; while the calling thread is in the shutdown every future
\* stays and goes forward only; and the driver reaches Stopped only when
\* every probe submitted in the cycle has run to completion.
C16_Step ==
    /\ (pc \in FanOutPcs /\ ~cancelled /\ cancelled') =>
          /\ pc' = "shutdown"
          /\ future_to_endpoint' = future_to_endpoint
          /\ driver' # "Stopped"
    /\ (pc = "shutdown" /\ pc' = "shutdown") =>
          /\ Len(future_to_endpoint') = Len(future_to_endpoint)
          /\ \A i \in 1..Len(future_to_endpoint) :
                Forward(future_to_endpoint[i], future_to_endpoint'[i])
    /\ (pc = "shutdown" /\ pc' # "shutdown") =>
          /\ driver' = "Stopped"
          /\ \A i \in 1..Len(future_to_endpoint) :
                /\ future_to_endpoint[i].state = "done"
                /\ future_to_endpoint[i].result # None
    /\ (driver # "Stopped" /\ driver' = "Stopped") => (Running = {} /\ Pending = {})
C16_InFlightProbesFinish == [][C16_Step]_vars

\* The interrupt came before any outcome was collected; both probes of the
\* cycle have since run to completion and the shutdown is about to return.
C16_Witness ==
    /\ pc = "shutdown"
    /\ cancelled
    /\ driver = "Running"
    /\ Len(future_to_endpoint) = 2
    /\ AllDone
    /\ results = <<>>

\* C17: live never has two fan-out cycles in progress. It calls fetch only
\* from the top of its loop, with no future of an earlier cycle left; it is
\* back at the top of the loop only when time.sleep has returned (or live has
\* just begun); and it goes to sleep only when fetch has returned: with every
\* probe of the cycle done and every outcome of it in the store.
C17_Step ==
    /\ (mode' = "live" /\ cycles' = cycles + 1) =>
          /\ pc = "loop"
          /\ future_to_endpoint = <<>>
          /\ results = <<>>
    /\ (mode' = "live" /\ pc' = "loop" /\ pc # "loop") =>
          \/ pc = "sleep"
          \/ pc = "idle" /\ cycles' = 0
    /\ (mode' = "live" /\ pc' = "sleep" /\ pc # "sleep") =>
          \/ pc = "loop" /\ future_to_endpoint' = <<>>
          \/ /\ pc = "save"
             /\ Len(future_to_endpoint) = Len(ToCheck)
             /\ AllDone
             /\ Len(results) = Len(future_to_endpoint)
             /\ Len(Rows(data_store')) = Len(rows_before) + Len(future_to_endpoint)
             /\ \A i \in 1..Len(future_to_endpoint) :
                   Rows(data_store')[Len(rows_before) + i]
                      = writerow(future_to_endpoint[i].result[1])
    /\ (mode = "live" /\ pc \in {"loop", "sleep"}) => future_to_endpoint = <<>>
C17_OneCycleAtATime == [][C17_Step]_vars

\* live's second cycle over the whole registry is in progress, a probe of it
\* running, and the store holds the outcome of the first.
C17_Witness ==
    /\ mode = "live"
    /\ cycles = 2
    /\ pc = "collect"
    /\ endpoint_names = None
    /\ Len(rows_before) = 1
    /\ Running # {}

\* C18, as claimed: within a cycle, whatever the number of endpoints and the
\* size of the pool, a probe that has not finished keeps no other probe of
\* the cycle from starting and completing: while probes are running, the
\* next submitted probe can start and every running probe can complete.
C18_NeverBlocked ==
    /\ (Running # {} /\ Pending # {}) => ENABLED start_probe
    /\ \A i \in Running : ENABLED finish_probe(i, Response(200, 50))

\* C18: within a cycle a probe that has not finished keeps no running probe
\* from completing, and keeps the next submitted probe from starting only
\* while every thread of the pool is taken by an unfinished probe: whenever
\* fewer than max_workers probes are running (always, in a cycle of at most
\* max_workers endpoints) the next submitted probe can start.
C18_BlockedOnlyByFullPool ==
    /\ (Pending # {} /\ Cardinality(Running) < max_workers) => ENABLED start_probe
    /\ (Pending # {} /\ Len(future_to_endpoint) <= max_workers) => ENABLED start_probe
    /\ \A i \in Running : ENABLED finish_probe(i, Response(200, 50))
    /\ (Pending # {} /\ ~ENABLED start_probe) => Cardinality(Running) = max_workers

\* The first probe is still running; the second, submitted after it, has
\* completed, and a thread is free for the last one, which has not started.
C18_Witness ==
    /\ Len(future_to_endpoint) = max_workers + 1
    /\ future_to_endpoint[1].state = "running"
    /\ future_to_endpoint[2].state = "done"
    /\ future_to_endpoint[max_workers + 1].state = "pending"
    /\ Cardinality(Running) < max_workers

\* Outcome i of the results list is row i of the rows the cycle has appended.
Persisted(i) ==
    /\ Len(Rows(data_store)) >= Len(rows_before) + i
    /\ Rows(data_store)[Len(rows_before) + i] = writerow(results[i])

\* C19, as claimed: an outcome is persisted before, or in the same step as,
\* it is added to the results list: in every reachable state every outcome in
\* the list has been appended to the store.
C19_PersistedBeforeListed == \A i \in 1..Len(results) : Persisted(i)

\* C19: an outcome is added to the results list just before it is persisted:
\* in every reachable state every outcome in the list but the last has been
\* appended to the store, the last one is missing from the store only
\* between results.append and _save_result, the cycle has appended nothing
\* else, and the list fetch returns is the last rows of the store.
C19_ListedThenPersisted ==
    /\ \A i \in 1..(Len(results) - 1) : Persisted(i)
    /\ pc \in {"submit", "collect"} =>
          /\ \A i \in 1..Len(results) : Persisted(i)
          /\ Len(Rows(data_store)) = Len(rows_before) + Len(results)
    /\ pc = "save" =>
          /\ results # <<>>
          /\ Len(Rows(data_store)) = Len(rows_before) + Len(results) - 1
    /\ returned.op = "fetch" =>
          LET n == Len(returned.value)
              rows == Rows(data_store)
          IN  /\ Len(rows) >= n
              /\ \A i \in 1..n : rows[Len(rows) - n + i] = writerow(returned.value[i])

\* live's calling thread has appended the second outcome of the cycle to the
\* list and not yet to the store, which holds the first.
C19_Witness ==
    /\ mode = "live"
    /\ pc = "save"
    /\ Len(results) = 2
    /\ Persisted(1)
    /\ ~Persisted(2)

\* C20: in whatever order the probes complete, the results list and the rows
\* appended to the store are in the order of to_check's items, the order of
\* submission: future i is for item i, outcome i of the list is the result of
\* future i, row i of the cycle is outcome i; an outcome is taken only when
\* every earlier one has been taken and persisted; and the list fetch
\* returns names the items of to_check in their order.
C20_State ==
    pc \in FanOutPcs \cup {"shutdown"} =>
        /\ \A i \in 1..Len(future_to_endpoint) :
              future_to_endpoint[i].name = ToCheck[i].name
        /\ Len(results) <= Len(future_to_endpoint)
        /\ \A i \in 1..Len(results) :
              /\ future_to_endpoint[i].state = "done"
              /\ results[i] = future_to_endpoint[i].result[1]
        /\ \A i \in 1..(Len(Rows(data_store)) - Len(rows_before)) :
              /\ i <= Len(results)
              /\ Rows(data_store)[Len(rows_before) + i]
                    = writerow(future_to_endpoint[i].result[1])
C20_Step ==
    /\ C20_State'
    /\ Len(results') = Len(results) + 1 =>
          /\ Len(Rows(data_store)) = Len(rows_before) + Len(results)
          /\ results' = Append(results, future_to_endpoint[Len(results) + 1].result[1])
    /\ FanOutReturns =>
          /\ NamesOf(results) = NamesOf(ToCheck)
          /\ mode = "fetch" => NamesOf(returned'.value) = NamesOf(ToCheck)
          /\ \A i \in 1..Len(ToCheck) :
                Rows(data_store')[Len(rows_before) + i][1] = ToCheck[i].name
C20_SubmissionOrder == [][C20_Step]_vars

\* In a cycle of live the second probe has completed while the first has
\* not: the calling thread waits for the first and has taken neither.
C20_Witness ==
    /\ mode = "live"
    /\ pc = "collect"
    /\ Len(future_to_endpoint) = 2
    /\ future_to_endpoint[1].state # "done"
    /\ future_to_endpoint[2].state = "done"
    /\ results = <<>>
    /\ Rows(data_store) = rows_before

\* C21: fetch called with an empty list of names goes the way of fetch with
\* no filter: to_check is the registry itself; on a registry that is not
\* empty it fans out, probes every registered endpoint once and returns one
\* outcome per endpoint, in the registry's order, instead of the empty list
\* of "No matching endpoints"; on an empty registry it returns the empty list.
C21_Step ==
    /\ (FetchCalled /\ endpoint_names' = Some(<<>>)) =>
          IF config = <<>>
          THEN /\ pc' \in {"idle", "sleep"}
               /\ future_to_endpoint' = <<>>
          ELSE /\ pc' = "submit"
               /\ to_check' = None
               /\ endpoints_at_start' = config
    /\ (FanOutReturns /\ endpoint_names = Some(<<>>)) =>
          /\ to_check = None
          /\ probe_calls # <<>>
          /\ \A name \in Keys(config) : Count(probe_calls, name) = 1
          /\ Len(probe_calls) = Len(config)
          /\ NamesOf(results) = NamesOf(config)
          /\ Len(Rows(data_store')) = Len(rows_before) + Len(config)
          /\ mode = "fetch" => returned' = [op |-> "fetch", value |-> results]
C21_EmptyFilterIsNoFilter == [][C21_Step]_vars

\* fetch([]) over a registry of two endpoints has taken both outcomes and is
\* about to save the second.
C21_Witness ==
    /\ mode = "fetch"
    /\ pc = "save"
    /\ endpoint_names = Some(<<>>)
    /\ to_check = None
    /\ Len(config) = 2
    /\ Len(results) = 2
=============================================================================
